---- MODULE Spec2Model ----
(***************************************************************************)
(* Model of app-tool (src/main.go): a one-shot job that uploads the charts *)
(* of a Helm repository index to the KubeSphere catalog API (uploadChart)  *)
(* and then reconciles the created records in four list-then-update stages *)
(* (updateAppStatus, updateAppLabel, updateVersionStatus, updateAppLabel). *)
(*                                                                         *)
(* The program is single threaded; every action below is one step of run() *)
(* or of a function it calls.  The HTTP servers and the cluster API are    *)
(* the environment: each call either succeeds with the effect the API      *)
(* documents or fails, and the code's branch for that outcome is taken.    *)
(***************************************************************************)
EXTENDS Integers, Sequences, FiniteSets, TLC

----------------------------------------------------------------------------
(* Bounds of the model *)

NumPkgs == 2        \* packages in the index: 0..NumPkgs
MaxEntries == 3     \* versions listed per package: 1..MaxEntries
MaxLimit == 2       \* --limit ranges over 0..MaxLimit
MaxOld == 1         \* application records present before the run: 0..MaxOld
MaxTick == 2        \* the clock runs over 0..MaxTick

----------------------------------------------------------------------------
(* Program constants *)

mark == "openpitrix-import"
Uncategorized == "kubesphere-app-uncategorized"
CategoryKey == "application.kubesphere.io/app-category-name"
StoreKey == "application.kubesphere.io/app-store"
RepoKey == "application.kubesphere.io/repo-name"

\* The clock is counted in ticks of half a second; time.RFC3339 keeps whole
\* seconds only.
TicksPerSec == 2
NoTime == -1        \* a timestamp field that is empty / not set

\* time.Now().UTC().Format(time.RFC3339): the instant cut to whole seconds
FormatRFC3339(t) == t \div TicksPerSec

\* the instant a stored RFC3339 string denotes (time.Parse)
ParseRFC3339(s) == s * TicksPerSec

----------------------------------------------------------------------------
(* The index: repo.IndexFile.Entries, package -> ordered chart versions *)

\* one chart version of the index: Deprecated, and len(URLs) > 0
ChartVersion == [deprecated : BOOLEAN, hasURL : BOOLEAN]

\* a ChartVersions value of the index
\* the service account's token
Token == "token"

\* the values of --token: not given (the default ""), or the token
TokenFlags == {"", Token}

\* the content of /var/run/secrets/kubesphere.io/serviceaccount/token: the
\* same account's token, nothing after main() depends on where it came from
FileToken == Token

\* resty_client before SetHeader("Authorization", ...)
NoHeader == [scheme |-> "", token |-> ""]

\* line 64: fmt.Sprintf("Bearer %s", t)
Bearer(t) == [scheme |-> "Bearer", token |-> t]

EntrySeqs == UNION {[1..n -> ChartVersion] : n \in 1..MaxEntries}

----------------------------------------------------------------------------
(* Catalog endpoints *)

\* line 199: the "create application" endpoint
CreateURL == [op |-> "create", app |-> 0]

\* line 201: the "add version to application <id>" endpoint
VersionURL(id) == [op |-> "addVersion", app |-> id]

\* UploadURL with the test of appID inverted
UploadURLInverted(id) == IF id # 0 THEN CreateURL ELSE VersionURL(id)

\* lines 197-202: the endpoint chosen for an upload; appID = 0 stands for ""
UploadURL(id) == IF id = 0 THEN CreateURL ELSE VersionURL(id)

----------------------------------------------------------------------------
(* State *)

VARIABLES
    pc,         \* position of the process in main(), run() and the function
                \* it is in
    exit,       \* how the process ended: "" (running or returned), or the
                \* stage whose log.Fatal ended it, or "panic"
    limit,      \* the package variable limit (--limit)
    token,      \* the package variable token (--token)
    Authorization, \* the Authorization header of resty_client, NoHeader
                \* before the client is built
    pkgsLeft,   \* packages of indexData.Entries the outer range has not visited
    curPkg,     \* the package the outer range is at (its chart name), 0 = none
    entries,    \* the ChartVersions of the package the outer range is at
    idx,        \* position of the inner range in entries
    appID,      \* uploadChart's appID, 0 = ""
    success,    \* uploadChart's success
    url,        \* uploadChart's url, the target of the POST under way
    response,   \* response.AppName of the last successful POST, 0 = ""
    http,       \* the requests uploadChart has sent for the package it is at,
                \* in order, each with its outcome
    slept,      \* time.Sleep (line 232) has run since the last successful POST
    apps,       \* applications on the cluster, by name (1..Len(apps))
    versions,   \* applicationversions on the cluster, by name
    now,        \* the clock, in ticks
    reconStart, \* the clock when run() built listOptions, NoTime before that
    stage,      \* the reconciliation call run() is in: 0 (none), 1..4
    label,      \* updateAppLabel's label argument, <<>> outside updateAppLabel
    list,       \* list.Items of the stage: the applications as they were listed
    i,          \* position of the stage's range over list
    versionList,\* versionList.Items of updateVersionStatus
    j,          \* position of the range over versionList
    calls,      \* the cluster API calls of the current stage, in order, each
                \* with its outcome
    completed   \* the calls of run() that returned without error, in order

vars == <<pc, exit, limit, token, Authorization, pkgsLeft, curPkg, entries, idx, appID, success, url,
          response, http, slept, apps, versions, now, reconStart, stage, label, list,
          i, versionList, j, calls, completed>>

mainVars == <<limit, token, Authorization>>
uploadVars == <<pkgsLeft, curPkg, entries, idx, appID, success, url, response,
                http, slept>>
clusterVars == <<apps, versions>>
stageVars == <<stage, label, list, i, versionList, j, calls>>

\* an application record: the labels and the status run() reads and writes;
\* pkg is the chart the record was created from (0: not created by this run)
NewApp(name, pkg, category) ==
    [name |-> name, pkg |-> pkg,
     labels |-> (CategoryKey :> category) @@ (RepoKey :> "upload"),
     state |-> "draft", updateTime |-> NoTime]

\* an applicationversion record; appId is its application.kubesphere.io/app-id label
NewVersion(name, app) ==
    [name |-> name, appId |-> app,
     state |-> "draft", userName |-> "", updated |-> NoTime]

\* the records an earlier run left on the cluster: each application has the
\* category an interrupted run (mark) or a finished run (Uncategorized) leaves
\* it with, and one version
OldCategories == {mark, Uncategorized}
OldApps == UNION {[1..n -> OldCategories] : n \in 0..MaxOld}

Init ==
    /\ pc = "main"
    /\ exit = ""
    /\ limit = 0
    /\ token = ""
    /\ Authorization = NoHeader
    /\ pkgsLeft = 0
    /\ curPkg = 0
    /\ entries = <<>>
    /\ idx = 0
    /\ appID = 0
    /\ success = 0
    /\ url = CreateURL
    /\ response = 0
    /\ http = <<>>
    /\ slept = FALSE
    /\ \E old \in OldApps :
          /\ apps = [n \in 1..Len(old) |-> NewApp(n, 0, old[n])]
          /\ versions = [n \in 1..Len(old) |-> NewVersion(n, n)]
    /\ now = 0
    /\ reconStart = NoTime
    /\ stage = 0
    /\ label = <<>>
    /\ list = <<>>
    /\ i = 0
    /\ versionList = <<>>
    /\ j = 0
    /\ calls = <<>>
    /\ completed = <<>>

\* log.Fatal(): the message is written and the process exits with status 1
Fatal(where) ==
    /\ pc' = "exited"
    /\ exit' = where

----------------------------------------------------------------------------
(* main() *)

\* lines 63-65: resty.New() with its headers set; the Authorization header is
\* formatted from token as it is at this point
NewRestyClient ==
    /\ pc = "main"
    /\ Authorization' = Bearer(token)
    /\ pc' = "Execute"
    /\ UNCHANGED <<exit, limit, token, uploadVars, clusterVars, now, reconStart,
                   stageVars, completed>>

\* lines 84-92: rootCmd.Execute() parses the flags into the package variables
\* and calls Run
Execute ==
    /\ pc = "Execute"
    /\ \E t \in TokenFlags, l \in 0..MaxLimit :
          /\ token' = t
          /\ limit' = l
    /\ pc' = "Run"
    /\ UNCHANGED <<exit, Authorization, uploadVars, clusterVars, now, reconStart,
                   stageVars, completed>>

\* lines 89-95: a required flag is missing or a flag does not parse,
\* os.Exit(1)
ExecuteFail ==
    /\ pc = "Execute"
    /\ pc' = "exited"
    /\ exit' = "Execute"
    /\ UNCHANGED <<mainVars, uploadVars, clusterVars, now, reconStart, stageVars,
                   completed>>

\* lines 71, 80: --token was given, Run goes on to run(resty_client)
RunWithToken ==
    /\ pc = "Run"
    /\ token # ""
    /\ pc' = "initDynamicClient"
    /\ UNCHANGED <<exit, mainVars, uploadVars, clusterVars, now, reconStart,
                   stageVars, completed>>

\* lines 71-80: no --token, the service account token file is read into token
ReadTokenFile ==
    /\ pc = "Run"
    /\ token = ""
    /\ token' = FileToken
    /\ pc' = "initDynamicClient"
    /\ UNCHANGED <<exit, limit, Authorization, uploadVars, clusterVars, now,
                   reconStart, stageVars, completed>>

\* lines 71-77: no --token and the token file cannot be read
ReadTokenFileFail ==
    /\ pc = "Run"
    /\ token = ""
    /\ Fatal("token")
    /\ UNCHANGED <<mainVars, uploadVars, clusterVars, now, reconStart, stageVars,
                   completed>>

----------------------------------------------------------------------------
(* run(): client construction and uploadChart *)

\* lines 101-104, 142-151: initDynamicClient returns nil
InitClientOK ==
    /\ pc = "initDynamicClient"
    /\ pc' = "index"
    /\ completed' = Append(completed, "initDynamicClient")
    /\ UNCHANGED <<exit, mainVars, uploadVars, clusterVars, now, reconStart, stageVars>>

\* lines 101-104, 145-148: dynamic.NewForConfig fails, run() dies
InitClientFail ==
    /\ pc = "initDynamicClient"
    /\ Fatal("initDynamicClient")
    /\ UNCHANGED <<mainVars, uploadVars, clusterVars, now, reconStart, stageVars, completed>>

\* lines 154-171: the index is downloaded and loaded
FetchIndexOK ==
    /\ pc = "index"
    /\ \E n \in 0..NumPkgs : pkgsLeft' = n
    /\ pc' = "package"
    /\ completed' = Append(completed, "index")
    /\ UNCHANGED <<exit, mainVars, curPkg, entries, idx, appID, success, url,
                   response, http, slept, clusterVars, now, reconStart, stageVars>>

\* lines 158-171: NewChartRepository, DownloadIndexFile or LoadIndexFile fails
FetchIndexFail ==
    /\ pc = "index"
    /\ Fatal("index")
    /\ UNCHANGED <<mainVars, uploadVars, clusterVars, now, reconStart, stageVars, completed>>

\* lines 173-175: the outer range takes the next package
NextPackage ==
    /\ pc = "package"
    /\ pkgsLeft > 0
    /\ pkgsLeft' = pkgsLeft - 1
    /\ curPkg' = curPkg + 1
    /\ entries' = <<>>
    /\ idx' = 0
    /\ appID' = 0
    /\ success' = 0
    /\ http' = <<>>
    /\ pc' = "range"
    /\ UNCHANGED <<exit, mainVars, url, response, slept, clusterVars, now,
                   reconStart, stageVars, completed>>

\* line 177: the inner range starts over the versions of the package, which
\* the index lists newest first
RangeEntries ==
    /\ pc = "range"
    /\ \E es \in EntrySeqs : entries' = es
    /\ idx' = 1
    /\ pc' = "entry"
    /\ UNCHANGED <<exit, mainVars, pkgsLeft, curPkg, appID, success, url, response,
                   http, slept, clusterVars, now, reconStart, stageVars, completed>>

\* what the uploader leaves alone while it walks the entries of a package
uploadFrame == <<exit, mainVars, pkgsLeft, curPkg, entries, now, reconStart,
                 stageVars, completed>>

\* line 177: the inner range is exhausted, back to the outer range
EntriesDone ==
    /\ pc = "entry"
    /\ idx > Len(entries)
    /\ pc' = "package"
    /\ UNCHANGED <<idx, appID, success, url, response, http, slept, clusterVars,
                   uploadFrame>>

\* SkipDeprecated with continue in the place of break
SkipDeprecatedEntry ==
    /\ pc = "entry"
    /\ idx <= Len(entries)
    /\ entries[idx].deprecated
    /\ idx' = idx + 1
    /\ pc' = "entry"
    /\ UNCHANGED <<appID, success, url, response, http, slept, clusterVars,
                   uploadFrame>>

\* lines 178-181: a deprecated entry ends the inner range (break)
SkipDeprecated ==
    /\ pc = "entry"
    /\ idx <= Len(entries)
    /\ entries[idx].deprecated
    /\ pc' = "package"
    /\ UNCHANGED <<idx, appID, success, url, response, http, slept, clusterVars,
                   uploadFrame>>

\* line 185: entry.URLs[0] of an entry without URLs is an index out of range;
\* the run-time panic ends the process
PanicNoURL ==
    /\ pc = "entry"
    /\ idx <= Len(entries)
    /\ ~entries[idx].deprecated
    /\ ~entries[idx].hasURL
    /\ pc' = "exited"
    /\ exit' = "panic"
    /\ UNCHANGED <<mainVars, uploadVars, clusterVars, now, reconStart, stageVars, completed>>

\* the chart GET of line 185 can be sent
CanGet ==
    /\ pc = "entry"
    /\ idx <= Len(entries)
    /\ ~entries[idx].deprecated
    /\ entries[idx].hasURL

\* a request of the log: the chart GET of an entry, or the POST to an endpoint
GetRequest(entry, ok) ==
    [method |-> "GET", entry |-> entry, url |-> [op |-> "chart", app |-> 0],
     auth |-> Authorization, ok |-> ok]
PostRequest(entry, u, ok) ==
    [method |-> "POST", entry |-> entry, url |-> u, auth |-> Authorization, ok |-> ok]

\* the continue of lines 188, 193, 218 and 223: on to the next entry
Continue ==
    /\ idx' = idx + 1
    /\ pc' = "entry"
    /\ UNCHANGED <<appID, success, url, response, slept, clusterVars, uploadFrame>>

\* lines 185-189: the GET fails in transport
GetTransportError ==
    /\ CanGet
    /\ http' = Append(http, GetRequest(idx, FALSE))
    /\ Continue

\* lines 191-194: the GET is answered with an error status
GetHTTPError ==
    /\ CanGet
    /\ http' = Append(http, GetRequest(idx, FALSE))
    /\ Continue

\* lines 185-202: the GET succeeds and the upload endpoint is chosen
GetOK ==
    /\ CanGet
    /\ http' = Append(http, GetRequest(idx, TRUE))
    /\ url' = UploadURL(appID)
    /\ pc' = "post"
    /\ UNCHANGED <<idx, appID, success, response, slept, clusterVars, uploadFrame>>

\* lines 215-219: the POST fails in transport
PostTransportError ==
    /\ pc = "post"
    /\ http' = Append(http, PostRequest(idx, url, FALSE))
    /\ Continue

\* PostHTTPError with the error returned to run(), which dies on it
PostHTTPErrorFatal ==
    /\ pc = "post"
    /\ http' = Append(http, PostRequest(idx, url, FALSE))
    /\ Fatal("uploadChart")
    /\ UNCHANGED <<mainVars, pkgsLeft, curPkg, entries, idx, appID, success, url,
                   response, slept, clusterVars, now, reconStart, stageVars,
                   completed>>

\* lines 221-224: the POST is answered with an error status
PostHTTPError ==
    /\ pc = "post"
    /\ http' = Append(http, PostRequest(idx, url, FALSE))
    /\ Continue

\* the catalog API serving a POST: "create" makes an application labelled
\* with the request's CategoryName (line 210) and its first version,
\* "addVersion" attaches a version to the application named in the URL
ServePost(u, pkg) ==
    IF u.op = "create"
    THEN /\ apps' = Append(apps, NewApp(Len(apps) + 1, pkg, mark))
         /\ versions' = Append(versions, NewVersion(Len(versions) + 1, Len(apps) + 1))
         /\ response' = Len(apps) + 1
    ELSE /\ apps' = apps
         /\ versions' = Append(versions, NewVersion(Len(versions) + 1, u.app))
         /\ response' = u.app

\* LimitReached with the comparison off by one
LimitReachedLate(s, l) == s > l

\* line 228: the version limit of the package is reached
LimitReached(s, l) == s >= l

\* lines 215-230: the POST succeeds; success is counted and the inner range
\* ends (break) when the limit is reached, else the loop goes to sleep.  The
\* answer is decoded into response (line 213) and never read: no statement
\* assigns appID after line 174
PostOK ==
    /\ pc = "post"
    /\ ServePost(url, curPkg)
    /\ http' = Append(http, PostRequest(idx, url, TRUE))
    /\ success' = success + 1
    /\ slept' = FALSE
    /\ pc' = IF LimitReached(success + 1, limit) THEN "package" ELSE "sleep"
    /\ UNCHANGED <<idx, appID, url, uploadFrame>>

\* line 232: time.Sleep, then the next entry
Sleep ==
    /\ pc = "sleep"
    /\ slept' = TRUE
    /\ idx' = idx + 1
    /\ pc' = "entry"
    /\ UNCHANGED <<appID, success, url, response, http, clusterVars, uploadFrame>>

----------------------------------------------------------------------------
(* run(): the reconciliation calls *)

\* store with the category rewritten in the same patch
storeAndCategory == (StoreKey :> "true") @@ (CategoryKey :> Uncategorized)

\* line 121
store == (StoreKey :> "true")

\* categoryName writing the uncategorized value under another label key
categoryNameOtherKey == ("app-category" :> Uncategorized)

\* line 134
categoryName == (CategoryKey :> Uncategorized)

\* RunCalls with the category rewrite ahead of every other call
RunCallsCategoryFirst == <<"categoryName", "updateAppStatus", "store", "updateVersionStatus">>

\* RunCalls with the category rewrite ahead of updateVersionStatus
RunCallsReordered == <<"updateAppStatus", "store", "categoryName", "updateVersionStatus">>

\* lines 115, 122, 128, 135: the calls of run() after uploadChart, in order;
\* a call of updateAppLabel is named by its label argument
RunCalls == <<"updateAppStatus", "store", "updateVersionStatus", "categoryName">>

\* the function a call of RunCalls enters
CallPc(c) ==
    CASE c = "updateAppStatus" -> "updateAppStatus"
      [] c = "updateVersionStatus" -> "updateVersionStatus"
      [] OTHER -> "updateAppLabel"

\* the label argument a call of RunCalls passes
CallLabel(c) ==
    CASE c = "store" -> store
      [] c = "categoryName" -> categoryName
      [] OTHER -> <<>>

\* run() makes its n-th reconciliation call, or returns after the last one
StartCall(n) ==
    /\ stage' = n
    /\ list' = <<>>
    /\ i' = 0
    /\ versionList' = <<>>
    /\ j' = 0
    /\ calls' = <<>>
    /\ IF n > Len(RunCalls)
       THEN pc' = "done" /\ label' = <<>>
       ELSE pc' = CallPc(RunCalls[n]) /\ label' = CallLabel(RunCalls[n])

\* Selected with a selector that asks only for the category key
SelectedAnyCategory(rec) == CategoryKey \in DOMAIN rec.labels

\* lines 111-113: the selector of every stage, category = mark
Selected(rec) ==
    /\ CategoryKey \in DOMAIN rec.labels
    /\ rec.labels[CategoryKey] = mark

\* dynamicClient.Resource(appGVR).List(listOptions): the matching applications
\* as they are on the cluster at the time of the call
ListApps == SelectSeq(apps, Selected)

\* ListVersions without the app-id selector
ListAllVersions(app) == versions

\* lines 247-250: the versions whose app-id label is the application's name
ListVersions(app) == SelectSeq(versions, LAMBDA v : v.appId = app)

\* lines 173, 236, 106-113: the outer range is exhausted, uploadChart returns
\* nil and run() builds listOptions and calls updateAppStatus
UploadReturn ==
    /\ pc = "package"
    /\ pkgsLeft = 0
    /\ completed' = Append(completed, "uploadChart")
    /\ entries' = <<>>
    /\ idx' = 0
    /\ appID' = 0
    /\ success' = 0
    /\ http' = <<>>
    /\ \E t \in now..MaxTick : now' = t /\ reconStart' = t
    /\ StartCall(1)
    /\ UNCHANGED <<exit, mainVars, pkgsLeft, curPkg, url, response, slept, clusterVars>>

\* a call of the log: List of the applications, List of the versions of an
\* application, or Update / UpdateStatus of the record of that name
ApiCall(op, name, ok) == [op |-> op, name |-> name, ok |-> ok]

\* what a reconciliation stage leaves alone
stageFrame == <<mainVars, uploadVars, reconStart>>

\* a stage returned an error: run() logs it and dies (lines 116-118, 123-125,
\* 129-131, 136-138)
StageFatal ==
    /\ Fatal(RunCalls[stage])
    /\ UNCHANGED <<stage, label, completed>>

\* a stage returned nil: run() goes on to its next call
StageReturn ==
    /\ completed' = Append(completed, RunCalls[stage])
    /\ StartCall(stage + 1)
    /\ UNCHANGED <<exit, clusterVars, now, stageFrame>>

\* lines 298-302: updateAppStatus lists the applications
AppStatusListOK ==
    /\ pc = "updateAppStatus"
    /\ list' = ListApps
    /\ calls' = Append(calls, ApiCall("List", 0, TRUE))
    /\ i' = 1
    /\ pc' = "updateAppStatus.range"
    /\ UNCHANGED <<exit, stage, label, versionList, j, completed, clusterVars, now,
                   stageFrame>>

\* lines 298-302: the list fails
AppStatusListFail ==
    /\ pc = "updateAppStatus"
    /\ calls' = Append(calls, ApiCall("List", 0, FALSE))
    /\ StageFatal
    /\ UNCHANGED <<list, i, versionList, j, clusterVars, now, stageFrame>>

\* ActiveApp without the updateTime of line 307
ActiveAppNoTime(item, t) == [item EXCEPT !.state = "active"]

\* lines 305-307: the item with its status set
ActiveApp(item, t) ==
    [item EXCEPT !.state = "active", !.updateTime = FormatRFC3339(t)]

\* UpdateStatus of an application: the status of the object sent replaces the
\* status of the record, nothing else of the record changes
PutAppStatus(item) ==
    apps' = [apps EXCEPT ![item.name].state = item.state,
                         ![item.name].updateTime = item.updateTime]

\* lines 304-314: the next item is set active and its status is updated
AppStatusUpdateOK ==
    /\ pc = "updateAppStatus.range"
    /\ i <= Len(list)
    /\ \E t \in now..MaxTick :
          /\ now' = t
          /\ list' = [list EXCEPT ![i] = ActiveApp(list[i], t)]
          /\ PutAppStatus(ActiveApp(list[i], t))
    /\ calls' = Append(calls, ApiCall("UpdateStatus", list[i].name, TRUE))
    /\ i' = i + 1
    /\ UNCHANGED <<pc, exit, stage, label, versionList, j, completed, versions,
                   stageFrame>>

\* AppStatusUpdateFail as the uploader treats a failure: log it and go on
AppStatusUpdateSkip ==
    /\ pc = "updateAppStatus.range"
    /\ i <= Len(list)
    /\ \E t \in now..MaxTick :
          /\ now' = t
          /\ list' = [list EXCEPT ![i] = ActiveApp(list[i], t)]
    /\ calls' = Append(calls, ApiCall("UpdateStatus", list[i].name, FALSE))
    /\ i' = i + 1
    /\ UNCHANGED <<pc, exit, stage, label, versionList, j, completed, clusterVars,
                   stageFrame>>

\* lines 309-313: UpdateStatus fails, the stage returns the error
AppStatusUpdateFail ==
    /\ pc = "updateAppStatus.range"
    /\ i <= Len(list)
    /\ \E t \in now..MaxTick :
          /\ now' = t
          /\ list' = [list EXCEPT ![i] = ActiveApp(list[i], t)]
    /\ calls' = Append(calls, ApiCall("UpdateStatus", list[i].name, FALSE))
    /\ StageFatal
    /\ UNCHANGED <<i, versionList, j, clusterVars, stageFrame>>

\* line 316: the range is exhausted, updateAppStatus returns nil
AppStatusReturn ==
    /\ pc = "updateAppStatus.range"
    /\ i > Len(list)
    /\ StageReturn

\* lines 274-278: updateAppLabel lists the applications
AppLabelListOK ==
    /\ pc = "updateAppLabel"
    /\ list' = ListApps
    /\ calls' = Append(calls, ApiCall("List", 0, TRUE))
    /\ i' = 1
    /\ pc' = "updateAppLabel.range"
    /\ UNCHANGED <<exit, stage, label, versionList, j, completed, clusterVars, now,
                   stageFrame>>

\* lines 274-278: the list fails
AppLabelListFail ==
    /\ pc = "updateAppLabel"
    /\ calls' = Append(calls, ApiCall("List", 0, FALSE))
    /\ StageFatal
    /\ UNCHANGED <<list, i, versionList, j, clusterVars, now, stageFrame>>

\* MergeLabels with the labels of the item replaced by the label argument
ReplaceLabels(labels, patch) == patch

\* lines 281-286: every pair of the label argument is written into the labels
\* of the item (a listed item has labels: it matched a label selector)
MergeLabels(labels, patch) ==
    [k \in DOMAIN labels \cup DOMAIN patch |->
        IF k \in DOMAIN patch THEN patch[k] ELSE labels[k]]

\* Update of an application: the metadata of the object sent replaces that of
\* the record; the resource has a status subresource (the code calls
\* UpdateStatus on it), so the status sent is ignored
PutApp(item) ==
    apps' = [apps EXCEPT ![item.name].labels = item.labels]

\* lines 280-291: the labels of the next item are merged and the item updated
AppLabelUpdateOK ==
    /\ pc = "updateAppLabel.range"
    /\ i <= Len(list)
    /\ list' = [list EXCEPT ![i].labels = MergeLabels(list[i].labels, label)]
    /\ PutApp([list[i] EXCEPT !.labels = MergeLabels(list[i].labels, label)])
    /\ calls' = Append(calls, ApiCall("Update", list[i].name, TRUE))
    /\ i' = i + 1
    /\ UNCHANGED <<pc, exit, stage, label, versionList, j, completed, versions,
                   now, stageFrame>>

\* lines 287-291: Update fails, the stage returns the error
AppLabelUpdateFail ==
    /\ pc = "updateAppLabel.range"
    /\ i <= Len(list)
    /\ list' = [list EXCEPT ![i].labels = MergeLabels(list[i].labels, label)]
    /\ calls' = Append(calls, ApiCall("Update", list[i].name, FALSE))
    /\ StageFatal
    /\ UNCHANGED <<i, versionList, j, clusterVars, now, stageFrame>>

\* line 294: the range is exhausted, updateAppLabel returns nil
AppLabelReturn ==
    /\ pc = "updateAppLabel.range"
    /\ i > Len(list)
    /\ StageReturn

\* lines 240-244: updateVersionStatus lists the applications
VersionAppsListOK ==
    /\ pc = "updateVersionStatus"
    /\ list' = ListApps
    /\ calls' = Append(calls, ApiCall("List", 0, TRUE))
    /\ i' = 1
    /\ pc' = "updateVersionStatus.range"
    /\ UNCHANGED <<exit, stage, label, versionList, j, completed, clusterVars, now,
                   stageFrame>>

\* lines 240-244: the list fails
VersionAppsListFail ==
    /\ pc = "updateVersionStatus"
    /\ calls' = Append(calls, ApiCall("List", 0, FALSE))
    /\ StageFatal
    /\ UNCHANGED <<list, i, versionList, j, clusterVars, now, stageFrame>>

\* lines 246-254: the versions of the next application are listed
VersionListOK ==
    /\ pc = "updateVersionStatus.range"
    /\ i <= Len(list)
    /\ versionList' = ListVersions(list[i].name)
    /\ j' = 1
    /\ calls' = Append(calls, ApiCall("ListVersions", list[i].name, TRUE))
    /\ pc' = "updateVersionStatus.versions"
    /\ UNCHANGED <<exit, stage, label, list, i, completed, clusterVars,
                   now, stageFrame>>

\* lines 250-254: the list of versions fails, the stage returns the error
VersionListFail ==
    /\ pc = "updateVersionStatus.range"
    /\ i <= Len(list)
    /\ calls' = Append(calls, ApiCall("ListVersions", list[i].name, FALSE))
    /\ StageFatal
    /\ UNCHANGED <<list, i, versionList, j, clusterVars, now, stageFrame>>

\* ActiveVersion without the userName of line 259
ActiveVersionNoUser(item, t) ==
    [item EXCEPT !.updated = FormatRFC3339(t), !.state = "active"]

\* lines 257-260: the version with its status set
ActiveVersion(item, t) ==
    [item EXCEPT !.updated = FormatRFC3339(t), !.userName = "admin",
                 !.state = "active"]

\* UpdateStatus of a version: the status of the object sent replaces the
\* status of the record
PutVersionStatus(item) ==
    versions' = [versions EXCEPT ![item.name].updated = item.updated,
                                 ![item.name].userName = item.userName,
                                 ![item.name].state = item.state]

\* lines 256-266: the next version is set active and its status is updated
VersionUpdateOK ==
    /\ pc = "updateVersionStatus.versions"
    /\ j <= Len(versionList)
    /\ \E t \in now..MaxTick :
          /\ now' = t
          /\ versionList' = [versionList EXCEPT ![j] = ActiveVersion(versionList[j], t)]
          /\ PutVersionStatus(ActiveVersion(versionList[j], t))
    /\ calls' = Append(calls, ApiCall("UpdateStatus", versionList[j].name, TRUE))
    /\ j' = j + 1
    /\ UNCHANGED <<pc, exit, stage, label, list, i, completed, apps, stageFrame>>

\* lines 262-266: UpdateStatus fails, the stage returns the error
VersionUpdateFail ==
    /\ pc = "updateVersionStatus.versions"
    /\ j <= Len(versionList)
    /\ \E t \in now..MaxTick :
          /\ now' = t
          /\ versionList' = [versionList EXCEPT ![j] = ActiveVersion(versionList[j], t)]
    /\ calls' = Append(calls, ApiCall("UpdateStatus", versionList[j].name, FALSE))
    /\ StageFatal
    /\ UNCHANGED <<list, i, j, clusterVars, stageFrame>>

\* line 256: the versions of the application are exhausted, next application
VersionsDone ==
    /\ pc = "updateVersionStatus.versions"
    /\ j > Len(versionList)
    /\ i' = i + 1
    /\ pc' = "updateVersionStatus.range"
    /\ UNCHANGED <<exit, stage, label, list, versionList, j, calls, completed,
                   clusterVars, now, stageFrame>>

\* line 270: the range is exhausted, updateVersionStatus returns nil
VersionReturn ==
    /\ pc = "updateVersionStatus.range"
    /\ i > Len(list)
    /\ StageReturn

----------------------------------------------------------------------------
(* The program *)

Next ==
    \/ NewRestyClient \/ Execute \/ ExecuteFail
    \/ RunWithToken \/ ReadTokenFile \/ ReadTokenFileFail
    \/ InitClientOK \/ InitClientFail
    \/ FetchIndexOK \/ FetchIndexFail
    \/ NextPackage \/ RangeEntries \/ UploadReturn
    \/ EntriesDone \/ SkipDeprecated \/ PanicNoURL
    \/ GetTransportError \/ GetHTTPError \/ GetOK
    \/ PostTransportError \/ PostHTTPError \/ PostOK \/ Sleep
    \/ AppStatusListOK \/ AppStatusListFail
    \/ AppStatusUpdateOK \/ AppStatusUpdateFail \/ AppStatusReturn
    \/ AppLabelListOK \/ AppLabelListFail
    \/ AppLabelUpdateOK \/ AppLabelUpdateFail \/ AppLabelReturn
    \/ VersionAppsListOK \/ VersionAppsListFail
    \/ VersionListOK \/ VersionListFail
    \/ VersionUpdateOK \/ VersionUpdateFail \/ VersionsDone \/ VersionReturn

Spec == Init /\ [][Next]_vars

----------------------------------------------------------------------------
(* Properties of uploadChart *)

\* the applications the catalog created from package p
AppsOf(p) == {a \in 1..Len(apps) : apps[a].pkg = p}

\* the versions the catalog created from package p: one per successful POST
Uploads(p) ==
    {v \in 1..Len(versions) :
        /\ versions[v].appId \in 1..Len(apps)
        /\ apps[versions[v].appId].pkg = p}

\* the successful POSTs among the first n requests of the package
OkPosts(n) ==
    Cardinality({m \in 1..n : http[m].method = "POST" /\ http[m].ok})

\* a GET was sent for entry k of the package
Fetched(k) == \E n \in 1..Len(http) : http[n].method = "GET" /\ http[n].entry = k

\* the position of the first deprecated entry, Len(es) + 1 when there is none
FirstDeprecated(es) ==
    IF \E k \in 1..Len(es) : es[k].deprecated
    THEN CHOOSE k \in 1..Len(es) :
            /\ es[k].deprecated
            /\ \A m \in 1..(k - 1) : ~es[m].deprecated
    ELSE Len(es) + 1

\* C1: with a limit K >= 1, no package gets more than K successful upload
\* POSTs, and no request (GET or POST) of a package is sent once K of its
\* POSTs have succeeded.
C1_LimitBoundsUploads ==
    limit >= 1 =>
        /\ \A p \in 1..curPkg : Cardinality(Uploads(p)) <= limit
        /\ OkPosts(Len(http)) <= limit
        /\ \A n \in 1..Len(http) : OkPosts(n - 1) < limit
        /\ (CanGet \/ pc = "post") => Cardinality(Uploads(curPkg)) < limit

\* C1 witness: three versions, none deprecated, limit 1: after the first
\* upload the package is left with two entries never attempted
C1_Witness ==
    /\ limit = 1
    /\ pc = "package"
    /\ Len(entries) = 3
    /\ \A k \in 1..3 : ~entries[k].deprecated
    /\ idx = 1
    /\ Len(http) = 2
    /\ Cardinality(Uploads(curPkg)) = 1
    /\ Cardinality(AppsOf(curPkg)) = 1

\* C2: no request is sent for the first deprecated entry of a package or for
\* an entry after it; the entries before it are all fetched unless the limit
\* was reached first; and after the deprecated entry the outer range goes on
\* as after any other package.
C2_DeprecatedEndsPackage ==
    /\ \A n \in 1..Len(http) : http[n].entry < FirstDeprecated(entries)
    /\ pc \in {"entry", "post", "sleep", "package"} => idx <= FirstDeprecated(entries)
    /\ pc = "package" =>
          \/ \A k \in 1..(FirstDeprecated(entries) - 1) : Fetched(k)
          \/ OkPosts(Len(http)) >= limit
    /\ (pc = "package" /\ idx <= Len(entries) /\ idx = FirstDeprecated(entries)) =>
          /\ exit = ""
          /\ pkgsLeft > 0 => ENABLED NextPackage
          /\ pkgsLeft = 0 => ENABLED UploadReturn

\* C2 witness: the second entry is the first deprecated one; the first entry
\* was attempted, the package ended there and another package follows
C2_Witness ==
    /\ pc = "package"
    /\ Len(entries) = 3
    /\ ~entries[1].deprecated
    /\ entries[2].deprecated
    /\ idx = 2
    /\ Fetched(1)
    /\ pkgsLeft = 1

\* C3 (as claimed): within a package the POSTs before the first success go to
\* the create endpoint, every POST after it goes to the add-version endpoint
\* of the application that success created, and so no package has more than
\* one application.
C3_LaterUploadsAddVersions ==
    /\ \A n \in 1..Len(http) :
          http[n].method = "POST" =>
             IF OkPosts(n - 1) = 0
             THEN http[n].url = CreateURL
             ELSE /\ AppsOf(curPkg) # {}
                  /\ http[n].url = VersionURL(CHOOSE a \in AppsOf(curPkg) :
                                                 \A b \in AppsOf(curPkg) : a <= b)
    /\ \A p \in 1..curPkg : Cardinality(AppsOf(p)) <= 1

\* C4: a POST sent while no POST of the package has succeeded goes to the
\* create endpoint, whatever happened in earlier packages; a package starts
\* with no application identifier and a success count of 0.
C4_NoSuccessMeansCreate ==
    /\ \A n \in 1..Len(http) :
          (http[n].method = "POST" /\ OkPosts(n - 1) = 0) => http[n].url = CreateURL
    /\ (pc = "post" /\ Uploads(curPkg) = {}) => url = CreateURL
    /\ (pc = "entry" /\ http = <<>>) => (appID = 0 /\ success = 0)

\* C4 witness: the second package, after uploads to the first one; its first
\* entry failed and the POST of its second entry is under way, to create
C4_Witness ==
    /\ curPkg = 2
    /\ Uploads(1) # {}
    /\ pc = "post"
    /\ idx = 2
    /\ OkPosts(Len(http)) = 0
    /\ url = CreateURL

\* C5: a failed GET or POST leaves the success count as it was (it equals the
\* number of successful POSTs), the loop is past the failed entry and, when
\* the package ends, has attempted the entry after it; the process does not
\* die in uploadChart of anything but a missing URL, and uploadChart returns
\* (nil, to the first reconciliation stage) only after the last package.
C5_EntryFailuresAbsorbed ==
    /\ (pc \in {"entry", "post", "sleep", "package"} /\ entries # <<>>) =>
          /\ success = OkPosts(Len(http))
          /\ success = Cardinality(Uploads(curPkg))
    /\ \A n \in 1..Len(http) :
          ~http[n].ok =>
             /\ exit \in {"", "panic"}
             /\ idx > http[n].entry
             /\ (pc = "package" /\ http[n].entry < Len(entries)) =>
                   \/ Fetched(http[n].entry + 1)
                   \/ entries[http[n].entry + 1].deprecated
    /\ (exit # "" /\ stage = 0) =>
          /\ exit \in {"Execute", "token", "initDynamicClient", "index", "panic"}
          /\ exit = "panic" => ~entries[idx].hasURL
    /\ (pc = "updateAppStatus" /\ calls = <<>>) =>
          /\ pkgsLeft = 0
          /\ stage = 1
          /\ completed = <<"initDynamicClient", "index", "uploadChart">>

\* C5 witness: the first version was uploaded, the POST of the second failed
\* and the third version is fetched all the same, with success still 1
C5_Witness ==
    /\ Len(http) = 5
    /\ http[2].method = "POST" /\ http[2].ok
    /\ http[4].method = "POST" /\ ~http[4].ok
    /\ http[5].method = "GET" /\ http[5].entry = 3
    /\ success = 1

----------------------------------------------------------------------------
(* Properties of run() and the reconciliation stages *)

\* the calls of run() in the order the design gives them
RunOrder ==
    <<"initDynamicClient", "index", "uploadChart", "updateAppStatus", "store",
      "updateVersionStatus", "categoryName">>

\* the first n calls of RunOrder
Done(n) == SubSeq(RunOrder, 1, n)

StageNames == {"updateAppStatus", "store", "updateVersionStatus", "categoryName"}
AppStatusPcs == {"updateAppStatus", "updateAppStatus.range"}
AppLabelPcs == {"updateAppLabel", "updateAppLabel.range"}
VersionPcs ==
    {"updateVersionStatus", "updateVersionStatus.range", "updateVersionStatus.versions"}

\* the category label of an application record
Category(a) == apps[a].labels[CategoryKey]

\* C6: the calls of run() complete in the order index, uploadChart,
\* updateAppStatus, updateAppLabel(store), updateVersionStatus,
\* updateAppLabel(category); the process is inside a call, or a record bears
\* the effect of a call, only when all the calls before it have completed;
\* and when updateVersionStatus fails every listed application, and every
\* application of this run, still has the category mark.
C6_StagesInOrder ==
    /\ \E n \in 0..Len(RunOrder) : completed = Done(n)
    /\ pc \in {"package", "entry", "post", "sleep"} => completed = Done(2)
    /\ (pc \in AppStatusPcs \/ exit = "updateAppStatus") => completed = Done(3)
    /\ pc \in AppLabelPcs => label \in {store, categoryName}
    /\ ((pc \in AppLabelPcs /\ label = store) \/ exit = "store") => completed = Done(4)
    /\ (pc \in VersionPcs \/ exit = "updateVersionStatus") => completed = Done(5)
    /\ ((pc \in AppLabelPcs /\ label = categoryName) \/ exit = "categoryName") =>
          completed = Done(6)
    /\ pc = "done" => completed = Done(7)
    /\ calls # <<>> => (pc \in AppStatusPcs \cup AppLabelPcs \cup VersionPcs
                        \/ exit \in StageNames)
    /\ \A a \in 1..Len(apps) :
          /\ apps[a].state = "active" => Len(completed) >= 3
          /\ StoreKey \in DOMAIN apps[a].labels => Len(completed) >= 4
          /\ (apps[a].pkg # 0 /\ Category(a) # mark) => Len(completed) >= 6
    /\ \A v \in 1..Len(versions) : versions[v].state = "active" => Len(completed) >= 5
    /\ exit = "updateVersionStatus" =>
          /\ \A k \in 1..Len(list) : Category(list[k].name) = mark
          /\ \A a \in 1..Len(apps) : apps[a].pkg # 0 => Category(a) = mark

\* C6 witness: updateVersionStatus failed after it updated a version; the two
\* listed applications have the store label and still the category mark
C6_Witness ==
    /\ exit = "updateVersionStatus"
    /\ Len(list) = 2
    /\ \E n \in 1..Len(calls) : calls[n].op = "UpdateStatus" /\ calls[n].ok
    /\ \A k \in 1..2 : /\ StoreKey \in DOMAIN apps[list[k].name].labels
                       /\ Category(list[k].name) = mark

\* C7: a failed list or update is the last call of its stage: the process has
\* exited on that stage's error and takes no further step, and the items after
\* the failing one are as they were listed (no update was sent for them).
C7_StageFailsFast ==
    /\ \A n \in 1..Len(calls) :
          ~calls[n].ok =>
             /\ n = Len(calls)
             /\ pc = "exited"
             /\ exit \in StageNames
             /\ ~ENABLED Next
    /\ exit \in StageNames => (calls # <<>> /\ ~calls[Len(calls)].ok)
    /\ exit \in {"updateAppStatus", "store", "categoryName"} =>
          \A k \in 1..Len(list) :
             k > i =>
                /\ \A n \in 1..Len(calls) : calls[n].name # list[k].name
                /\ apps[list[k].name].state = list[k].state
                /\ apps[list[k].name].labels = list[k].labels
    /\ exit = "updateVersionStatus" =>
          \A v \in 1..Len(versions) :
             (versions[v].state = "active"
                \/ \E n \in 1..Len(calls) :
                      calls[n].op = "UpdateStatus" /\ calls[n].ok /\ calls[n].name = v) =>
                /\ \E k \in 1..i : k <= Len(list) /\ versions[v].appId = list[k].name
                /\ (i <= Len(list) /\ versions[v].appId = list[i].name) =>
                      \E m \in 1..(j - 1) : versionList[m].name = v

\* C7 witness: updateAppStatus listed three applications, updated the first
\* and failed on the second; the third is still a draft
C7_Witness ==
    /\ exit = "updateAppStatus"
    /\ Len(list) = 3
    /\ i = 2
    /\ apps[list[1].name].state = "active"
    /\ apps[list[3].name].state = "draft"

\* C8: at the return nil of updateAppStatus every application it listed is
\* active with an updateTime set, by a successful UpdateStatus that left its
\* labels alone; and once updateAppStatus has completed every application
\* with the category mark is active with an updateTime.
C8_AppStatusActive ==
    /\ (pc = "updateAppStatus.range" /\ i > Len(list)) =>
          \A k \in 1..Len(list) :
             /\ apps[list[k].name].state = "active"
             /\ apps[list[k].name].updateTime # NoTime
             /\ apps[list[k].name].updateTime \in 0..FormatRFC3339(now)
             /\ apps[list[k].name].labels = list[k].labels
             /\ calls[k + 1] = ApiCall("UpdateStatus", list[k].name, TRUE)
    /\ Len(completed) >= 4 =>
          \A a \in 1..Len(apps) :
             Category(a) = mark =>
                (apps[a].state = "active" /\ apps[a].updateTime # NoTime)

\* C8 witness: updateAppStatus is about to return nil after two updates
C8_Witness ==
    /\ pc = "updateAppStatus.range"
    /\ i > Len(list)
    /\ Len(list) = 2
    /\ \E k \in 1..2 : apps[list[k].name].pkg # 0

\* the versions of the applications updateVersionStatus listed
ListedVersions ==
    {v \in 1..Len(versions) : \E k \in 1..Len(list) : versions[v].appId = list[k].name}

\* updateVersionStatus is at its return nil
VersionStatusReturns == pc = "updateVersionStatus.range" /\ i > Len(list)

\* C9 (as claimed): at the return nil of updateVersionStatus every version of
\* a listed application is active, updated by admin, at a time that is not
\* before the time reconciliation started.
C9_VersionsStampedAfterStart ==
    VersionStatusReturns =>
       \A v \in ListedVersions :
          /\ versions[v].state = "active"
          /\ versions[v].userName = "admin"
          /\ versions[v].updated # NoTime
          /\ ParseRFC3339(versions[v].updated) >= reconStart

\* C9 (amended): at the return nil of updateVersionStatus every version of a
\* listed application is active, updated by admin, at the time of its update
\* cut to whole seconds: not before the second in which reconciliation
\* started (less than one second before its start) and not after the clock.
C9_VersionsStampedToTheSecond ==
    VersionStatusReturns =>
       \A v \in ListedVersions :
          /\ versions[v].state = "active"
          /\ versions[v].userName = "admin"
          /\ versions[v].updated # NoTime
          /\ versions[v].updated >= FormatRFC3339(reconStart)
          /\ ParseRFC3339(versions[v].updated) > reconStart - TicksPerSec
          /\ ParseRFC3339(versions[v].updated) <= now

\* C9 witness: updateVersionStatus returns nil and a version it updated has a
\* timestamp that, read back, is before the start of reconciliation
C9_Witness ==
    /\ VersionStatusReturns
    /\ \E v \in ListedVersions :
          /\ versions[v].state = "active"
          /\ ParseRFC3339(versions[v].updated) < reconStart

\* a step of updateAppLabel in which an Update succeeded
LabelUpdated ==
    /\ pc = "updateAppLabel.range"
    /\ Len(calls') = Len(calls) + 1
    /\ calls'[Len(calls')].op = "Update"
    /\ calls'[Len(calls')].ok

\* C10: a successful Update of updateAppLabel leaves the application with its
\* labels overridden by the label argument (every key of the argument has the
\* argument's value, every other key keeps its value, no key is lost) and
\* changes nothing else: not its status, no other record.
C10_LabelPatchAdditive ==
    [][LabelUpdated =>
          LET a == list[i].name
              L == apps[a].labels
              M == apps'[a].labels
          IN  /\ DOMAIN M = DOMAIN L \cup DOMAIN label
              /\ \A k \in DOMAIN label : M[k] = label[k]
              /\ \A k \in DOMAIN L \ DOMAIN label : M[k] = L[k]
              /\ apps'[a].state = apps[a].state
              /\ apps'[a].updateTime = apps[a].updateTime
              /\ apps' = [apps EXCEPT ![a].labels = M]
              /\ versions' = versions]_vars

\* C10 witness: the category rewrite has updated an application: it has the
\* new category, and still the store label, the repo label and its status
C10_Witness ==
    /\ pc = "updateAppLabel.range"
    /\ label = categoryName
    /\ i = 2
    /\ apps[list[1].name].labels =
          (CategoryKey :> Uncategorized) @@ (StoreKey :> "true") @@ (RepoKey :> "upload")
    /\ apps[list[1].name].state = "active"

----------------------------------------------------------------------------
(* Properties of the selector *)

\* the versions of application a
VersionsOf(a) == {v \in 1..Len(versions) : versions[v].appId = a}

\* application a is fully reconciled: active, in the store, all versions active
Reconciled(a) ==
    /\ apps[a].state = "active"
    /\ apps[a].updateTime # NoTime
    /\ StoreKey \in DOMAIN apps[a].labels
    /\ apps[a].labels[StoreKey] = "true"
    /\ \A v \in VersionsOf(a) : versions[v].state = "active"

\* C11 (as claimed): no record that was on the cluster before the run is
\* changed by it (no such application, no version of one), and when the run
\* is done every application it created is reconciled and recategorized.
C11_OnlyThisRunsRecords ==
    [][/\ \A a \in 1..Len(apps) : apps[a].pkg = 0 => apps'[a] = apps[a]
       /\ \A v \in 1..Len(versions) :
             apps[versions[v].appId].pkg = 0 => versions'[v] = versions[v]
       /\ pc' = "done" =>
             \A a \in 1..Len(apps) :
                apps[a].pkg # 0 => (Reconciled(a)' /\ Category(a)' = Uncategorized)]_vars

\* C11 (amended): a step changes an application only if it has the category
\* mark, and a version only if its application has; every list of a stage
\* holds exactly the applications that have the category mark at that time,
\* whichever run created them; and when the run is done every application it
\* created is reconciled and recategorized.
C11_SentinelScopesStages ==
    [][/\ \A a \in 1..Len(apps) : apps'[a] # apps[a] => Category(a) = mark
       /\ \A v \in 1..Len(versions) :
             versions'[v] # versions[v] => Category(versions[v].appId) = mark
       /\ (Len(calls') = 1 /\ calls'[1] = ApiCall("List", 0, TRUE)) =>
             {list'[k].name : k \in 1..Len(list')} =
                {a \in 1..Len(apps) : Category(a) = mark}
       /\ pc' = "done" =>
             \A a \in 1..Len(apps) :
                apps[a].pkg # 0 => (Reconciled(a)' /\ Category(a)' = Uncategorized)]_vars

\* C11 witness: the run is done; an application an earlier run left with the
\* category mark was reconciled along with the one this run created
C11_Witness ==
    /\ pc = "done"
    /\ \E a \in 1..Len(apps) :
          apps[a].pkg = 0 /\ Reconciled(a) /\ Category(a) = Uncategorized
    /\ \E a \in 1..Len(apps) :
          apps[a].pkg # 0 /\ Reconciled(a) /\ Category(a) = Uncategorized

\* C12: after a run in which all four stages succeeded no application has the
\* category mark, so a further list by the selector matches nothing; every
\* application the run created (each matched the selector) has the category
\* Uncategorized, the store label "true" and the state "active", and so has
\* every other application the stages matched.
C12_NoSentinelLeft ==
    pc = "done" =>
       /\ ListApps = <<>>
       /\ \A a \in 1..Len(apps) :
             /\ Category(a) = Uncategorized
             /\ (apps[a].pkg # 0 \/ apps[a].state = "active"
                   \/ StoreKey \in DOMAIN apps[a].labels) =>
                   /\ apps[a].state = "active"
                   /\ StoreKey \in DOMAIN apps[a].labels
                   /\ apps[a].labels[StoreKey] = "true"

\* C12 witness: a run is done that created two applications
C12_Witness ==
    /\ pc = "done"
    /\ Cardinality({a \in 1..Len(apps) : apps[a].pkg # 0}) = 2
    /\ \A a \in 1..Len(apps) : apps[a].pkg # 0 => apps[a].labels[StoreKey] = "true"

----------------------------------------------------------------------------
(* Properties of the limit *)

\* C13: no package gets more successful upload POSTs than limit, for every
\* limit from 0 up; with limit = 0 no upload POST succeeds.
C13_LimitZeroUploadsNothing ==
    \A p \in 1..curPkg : Cardinality(Uploads(p)) <= limit

----------------------------------------------------------------------------
(* Properties of main() *)

\* C14: every POST to the catalog carries the Authorization header
\* "Bearer <token>" made of the token the run works with, the value of --token
\* or else the content of the token file.
C14_PostsCarryToken ==
    \A n \in 1..Len(http) :
       http[n].method = "POST" => http[n].auth = Bearer(token)

----------------------------------------------------------------------------
(* Properties of the stages taken together *)

\* the names of the applications the stage listed
ListNames == {list[k].name : k \in 1..Len(list)}

\* the applications updateAppStatus has activated
Activated == {a \in 1..Len(apps) : apps[a].state = "active"}

\* C15: no stage before the last rewrites the category: until the category
\* patch has changed a record, an application without the category mark is one
\* no stage has touched. So the four lists hold the same applications: what
\* the store patch, updateVersionStatus and the category patch list is the set
\* updateAppStatus activated.
C15_SameSetEveryStage ==
    /\ (stage \in 1..3 \/ (stage = 4 /\ \A n \in 1..Len(calls) :
                                          calls[n].op = "Update" => ~calls[n].ok)) =>
          \A a \in 1..Len(apps) :
             Category(a) # mark =>
                /\ apps[a].pkg = 0
                /\ apps[a] = NewApp(a, 0, Uncategorized)
    /\ (pc = "updateAppStatus.range" /\ i = 1) =>
          ListNames = {a \in 1..Len(apps) : Category(a) = mark}
    /\ pc \in {"updateAppLabel.range", "updateVersionStatus.range",
               "updateVersionStatus.versions"} =>
          ListNames = Activated

\* C15 witness: the category patch, the fourth stage, has listed the two
\* applications the first stage activated and has not updated one yet
C15_Witness ==
    /\ pc = "updateAppLabel.range"
    /\ label = categoryName
    /\ i = 1
    /\ Cardinality(ListNames) = 2
    /\ ListNames = Activated

----------------------------------------------------------------------------
(* Properties of the pacing of uploads *)

\* C16: an upload POST that succeeds after an earlier one of the run has
\* succeeded comes after a time.Sleep since that earlier one, whether the two
\* are for the same package or for two packages.
C16_SleepBetweenUploads ==
    [][(Len(versions') > Len(versions) /\ \E a \in 1..Len(apps) : apps[a].pkg # 0)
          => slept]_vars

----------------------------------------------------------------------------
(* Properties of updateVersionStatus: which versions it reaches *)

\* application a never had the category mark during the run: it was there
\* before the run, uncategorized, and no stage has activated it
NeverMatched(a) ==
    /\ apps[a].pkg = 0
    /\ Category(a) = Uncategorized
    /\ apps[a].state = "draft"

\* C17: updateVersionStatus lists versions only by the app-id of an
\* application that has the category mark and updates only versions so
\* listed; a version of an application that never had the category mark is
\* not listed and the run leaves it as it was.
C17_VersionsOfMatchedOnly ==
    /\ stage = 3 =>
          \A n \in 1..Len(calls) :
             /\ calls[n].op = "ListVersions" => Category(calls[n].name) = mark
             /\ calls[n].op = "UpdateStatus" =>
                   Category(versions[calls[n].name].appId) = mark
    /\ pc = "updateVersionStatus.versions" =>
          \A k \in 1..Len(versionList) :
             /\ versionList[k].appId = list[i].name
             /\ Category(versionList[k].appId) = mark
    /\ \A v \in 1..Len(versions) :
          NeverMatched(versions[v].appId) =>
             /\ versions[v] = NewVersion(v, versions[v].appId)
             /\ \A k \in 1..Len(versionList) : versionList[k].name # v

\* C17 witness: the run is done, the version of an application it created is
\* active and the version of an uncategorized application is still a draft
C17_Witness ==
    /\ pc = "done"
    /\ \E v \in 1..Len(versions) :
          /\ NeverMatched(versions[v].appId)
          /\ versions[v].state = "draft"
    /\ \E v \in 1..Len(versions) :
          /\ apps[versions[v].appId].pkg # 0
          /\ versions[v].state = "active"

----------------------------------------------------------------------------
(* Properties of entries without a download URL *)

\* C18: a version that is not deprecated and lists no download URL does not
\* end the run: the process does not die at it, the entry is passed over as a
\* failed entry is.
C18_NoURLAbsorbed ==
    \A n \in 1..Len(entries) :
       (~entries[n].deprecated /\ ~entries[n].hasURL) => exit # "panic"

----------------------------------------------------------------------------
(* Properties of the category rewrite *)

\* application a had its category rewritten from mark by this run: the run
\* created it (with the category mark) or the category patch under way has
\* updated it
Rewritten(a) ==
    /\ Category(a) = Uncategorized
    /\ \/ apps[a].pkg # 0
       \/ /\ stage = 4
          /\ ApiCall("Update", a, TRUE) \in {calls[n] : n \in 1..Len(calls)}

\* C19: in every state, also after a stage has ended the process part-way, an
\* application whose category this run has rewritten is active, has the store
\* label "true" and has all its versions active.
C19_RewrittenAreReconciled ==
    \A a \in 1..Len(apps) : Rewritten(a) => Reconciled(a)

\* C19 witness: the category patch died at the second application; the first
\* has been rewritten, the second still has the category mark
C19_Witness ==
    /\ pc = "exited"
    /\ exit = "categoryName"
    /\ Len(list) = 2
    /\ i = 2
    /\ Rewritten(list[1].name)
    /\ Category(list[2].name) = mark

====
